---- MODULE Spec2Model ----
(***************************************************************************)
(* APIOptimizer: the in-memory request cache, per-domain rate limiter,     *)
(* per-domain circuit breaker and priority queue for outbound HTTP calls.  *)
(*                                                                         *)
(* The optimizer runs on a single-threaded event loop.  One action of the  *)
(* model is one run-to-completion step of that loop: a call of request(),  *)
(* the completion of a pending fetch, the firing of a timer.  Time is the  *)
(* value of Date.now() in milliseconds and only moves in Advance.          *)
(***************************************************************************)
EXTENDS Integers, Sequences, FiniteSets, TLC

VARIABLES
    now,                \* Date.now()
    ticks,              \* number of Advance steps taken
    requestCache,       \* Map<string, CacheEntry>
    rateLimiter,        \* Map<string, RateLimiter>
    circuitBreaker,     \* Map<string, CircuitBreaker>
    requestQueue,       \* QueuedRequest[]
    isProcessingQueue,  \* boolean
    timers,             \* due times of the pending setTimeout(processQueue, 1000)
    drainPc,            \* where the processQueue loop is suspended
    delayDue,           \* due time of the loop's pending 100 ms delay
    promise,            \* the promise of every request() call, by request id
    calls,              \* history: the fetches made within the last limiter window
    dispatched,         \* history: the requests sent from the queue, in order
    streak,             \* history: per domain, the failed attempts since its last success
    trial,              \* history: per domain, the request admitted when the cooldown
                        \* of the open breaker had elapsed, until it settles
    batch               \* the calls of batchRequests(), by batch number

vars == <<now, ticks, requestCache, rateLimiter, circuitBreaker, requestQueue,
          isProcessingQueue, timers, drainPc, delayDue, promise, calls, dispatched,
          streak, trial, batch>>

-----------------------------------------------------------------------------
(* Bounds of the model *)

MaxRequests == 3
MaxTicks == 2
MaxQueueRequests == 4
MaxQueueTicks == 5
MaxCacheRequests == 3
MaxCacheTicks == 2
MaxLiveRequests == 3
MaxLiveTimers == 2
MaxQuotaRequests == 4
MaxQuotaTicks == 2
MaxQuotaSpare == 1
MaxHeadRequests == 3
MaxHeadTicks == 2
MaxFrameRequests == 3
MaxFrameTicks == 2
MaxRetryRequests == 3
MaxRetryTicks == 1
MaxBatchRequests == 3
MaxBatchTicks == 2
MaxBatchSize == 2
MaxBatches == 2
MaxSettleRequests == 3
MaxSettleTicks == 3
MaxCeilingRequests == 3
MaxCeilingTicks == 1
MaxCeilingSpare == 1

-----------------------------------------------------------------------------
(* Configuration tables *)

RATE_LIMITS ==
    [d \in {"nominatim.openstreetmap.org", "ipapi.co", "ip-api.com",
            "timeapi.io", "api.geonames.org"} |->
        CASE d = "nominatim.openstreetmap.org" -> [requests |-> 1, window |-> 1000]
          [] d = "ipapi.co"                    -> [requests |-> 1000, window |-> 60000]
          [] d = "ip-api.com"                  -> [requests |-> 45, window |-> 60000]
          [] d = "timeapi.io"                  -> [requests |-> 100, window |-> 60000]
          [] d = "api.geonames.org"            -> [requests |-> 1000, window |-> 3600000]]

CIRCUIT_BREAKER_CONFIG == [failureThreshold |-> 5, resetTimeout |-> 60000]

CacheCeiling == 1000
InterRequestDelay == 100
DrainRetryDelay == 1000

getCacheTTL(domain) ==
    CASE domain = "nominatim.openstreetmap.org" -> 60 * 60 * 1000
      [] domain = "ipapi.co"                    -> 30 * 60 * 1000
      [] domain = "ip-api.com"                  -> 30 * 60 * 1000
      [] domain = "timeapi.io"                  -> 60 * 60 * 1000
      [] domain = "api.geonames.org"            -> 60 * 60 * 1000
      [] OTHER                                  -> 15 * 60 * 1000

\* getPriorityIndex with the table looked up by a key it does not have.
getPriorityIndexNoTag(priority) == 1

\* priorities[priority] || 1 : the rank 0 of 'high' is falsy.
getPriorityIndex(priority) ==
    LET priorities == [high |-> 0, medium |-> 1, low |-> 2]
    IN  IF priority \in DOMAIN priorities /\ priorities[priority] # 0
        THEN priorities[priority]
        ELSE 1

-----------------------------------------------------------------------------
(* Values *)

\* A URL is either absolute (new URL(url) parses it) or not.
extractDomain(url) == IF url.absolute THEN url.hostname ELSE "unknown"

NoValue == [kind |-> "none", id |-> 0, attempt |-> 0]
CircuitOpenError == [kind |-> "Circuit breaker is open", id |-> 0, attempt |-> 0]

\* The JSON body of the response to an attempt of request id.
Payload(id, attempt) == [kind |-> "data", id |-> id, attempt |-> attempt]
\* The error thrown by an attempt of request id.
FetchError(outcome, id, attempt) == [kind |-> outcome, id |-> id, attempt |-> attempt]

\* A JSON body that is falsy in JavaScript (null, 0, false, ""): equal
\* whoever fetched it.
FalsyPayload == [kind |-> "falsy", id |-> 0, attempt |-> 0]

\* The outcomes of a fetch that are a 2xx response with a JSON body.
Success == {"ok", "ok falsy"}
PayloadOf(outcome, id, attempt) ==
    IF outcome = "ok falsy" THEN FalsyPayload ELSE Payload(id, attempt)

\* Includes404 that finds the text in no message.
Includes404Never(outcome) == FALSE

\* error.message.includes('404'): the message of a non-2xx response is
\* `HTTP ${status}: ${statusText}`, so a 404 in the status text counts too.
Includes404(outcome) == outcome \in {"HTTP 404", "HTTP 502: upstream 404"}

\* if (cached), if (config.cacheKey): JavaScript truthiness.
Truthy(value) == value.kind = "data"

Put(map, key, value) ==
    [k \in DOMAIN map \cup {key} |-> IF k = key THEN value ELSE map[k]]
Delete(map, key) == [k \in DOMAIN map \ {key} |-> map[k]]

-----------------------------------------------------------------------------
(* Rate limiter, circuit breaker, cache *)

\* checkRateLimit with <= for < : one request more than the quota.
checkRateLimitOneMore(limiters, domain, t) ==
    IF domain \notin DOMAIN RATE_LIMITS
    THEN [ok |-> TRUE, rateLimiter |-> limiters]
    ELSE LET rateLimit == RATE_LIMITS[domain]
         IN  IF domain \notin DOMAIN limiters \/ t >= limiters[domain].resetTime
             THEN [ok |-> TRUE,
                   rateLimiter |-> Put(limiters, domain,
                       [count |-> 1, resetTime |-> t + rateLimit.window])]
             ELSE IF limiters[domain].count <= rateLimit.requests
             THEN [ok |-> TRUE,
                   rateLimiter |-> [limiters EXCEPT ![domain].count = @ + 1]]
             ELSE [ok |-> FALSE, rateLimiter |-> limiters]

checkRateLimit(limiters, domain, t) ==
    IF domain \notin DOMAIN RATE_LIMITS
    THEN [ok |-> TRUE, rateLimiter |-> limiters]
    ELSE LET rateLimit == RATE_LIMITS[domain]
         IN  IF domain \notin DOMAIN limiters \/ t >= limiters[domain].resetTime
             THEN [ok |-> TRUE,
                   rateLimiter |-> Put(limiters, domain,
                       [count |-> 1, resetTime |-> t + rateLimit.window])]
             ELSE IF limiters[domain].count < rateLimit.requests
             THEN [ok |-> TRUE,
                   rateLimiter |-> [limiters EXCEPT ![domain].count = @ + 1]]
             ELSE [ok |-> FALSE, rateLimiter |-> limiters]

\* isCircuitOpen that closes the breaker and keeps the count of failures.
isCircuitOpenKeepsCount(breakers, domain, t) ==
    IF domain \notin DOMAIN breakers
    THEN [open |-> FALSE, circuitBreaker |-> breakers]
    ELSE IF breakers[domain].isOpen
    THEN IF t - breakers[domain].lastFailure > CIRCUIT_BREAKER_CONFIG.resetTimeout
         THEN [open |-> FALSE,
               circuitBreaker |-> [breakers EXCEPT ![domain].isOpen = FALSE]]
         ELSE [open |-> TRUE, circuitBreaker |-> breakers]
    ELSE [open |-> FALSE, circuitBreaker |-> breakers]

isCircuitOpen(breakers, domain, t) ==
    IF domain \notin DOMAIN breakers
    THEN [open |-> FALSE, circuitBreaker |-> breakers]
    ELSE IF breakers[domain].isOpen
    THEN IF t - breakers[domain].lastFailure > CIRCUIT_BREAKER_CONFIG.resetTimeout
         THEN [open |-> FALSE,
               circuitBreaker |->
                   [breakers EXCEPT ![domain].isOpen = FALSE, ![domain].failures = 0]]
         ELSE [open |-> TRUE, circuitBreaker |-> breakers]
    ELSE [open |-> FALSE, circuitBreaker |-> breakers]

recordFailure(breakers, domain, t) ==
    LET breaker == IF domain \in DOMAIN breakers
                   THEN breakers[domain]
                   ELSE [failures |-> 0, lastFailure |-> 0, isOpen |-> FALSE]
        failures == breaker.failures + 1
    IN  Put(breakers, domain,
            [failures |-> failures,
             lastFailure |-> t,
             isOpen |-> IF failures >= CIRCUIT_BREAKER_CONFIG.failureThreshold
                        THEN TRUE ELSE breaker.isOpen])

resetCircuitBreaker(breakers, domain) == Delete(breakers, domain)

Expired(entry, t) == t > entry.timestamp + entry.ttl

\* getFromCache without the test of the entry's age.
getFromCacheStale(cache, key, t) ==
    IF key \notin DOMAIN cache
    THEN [data |-> NoValue, requestCache |-> cache]
    ELSE [data |-> cache[key].data, requestCache |-> cache]

\* data is the returned value (NoValue for null).
getFromCache(cache, key, t) ==
    IF key \notin DOMAIN cache
    THEN [data |-> NoValue, requestCache |-> cache]
    ELSE IF Expired(cache[key], t)
    THEN [data |-> NoValue, requestCache |-> Delete(cache, key)]
    ELSE [data |-> cache[key].data, requestCache |-> cache]

cleanupCache(cache, t) ==
    [k \in {key \in DOMAIN cache : ~Expired(cache[key], t)} |-> cache[k]]

\* setCache with >= for > : the cleanup starts at the ceiling, not above it.
setCacheAtCeiling(cache, key, data, ttl, t) ==
    LET written == Put(cache, key, [data |-> data, timestamp |-> t, ttl |-> ttl])
    IN  IF Cardinality(DOMAIN written) >= CacheCeiling
        THEN cleanupCache(written, t)
        ELSE written

setCache(cache, key, data, ttl, t) ==
    LET written == Put(cache, key, [data |-> data, timestamp |-> t, ttl |-> ttl])
    IN  IF Cardinality(DOMAIN written) > CacheCeiling
        THEN cleanupCache(written, t)
        ELSE written

-----------------------------------------------------------------------------
(* The optimizer's state as one record, so that the handlers compose *)

Cur ==
    [requestCache |-> requestCache, rateLimiter |-> rateLimiter,
     circuitBreaker |-> circuitBreaker, requestQueue |-> requestQueue,
     isProcessingQueue |-> isProcessingQueue, timers |-> timers,
     drainPc |-> drainPc, delayDue |-> delayDue, promise |-> promise,
     calls |-> calls, dispatched |-> dispatched, streak |-> streak,
     trial |-> trial, batch |-> batch]

Commit(S) ==
    /\ requestCache' = S.requestCache
    /\ rateLimiter' = S.rateLimiter
    /\ circuitBreaker' = S.circuitBreaker
    /\ requestQueue' = S.requestQueue
    /\ isProcessingQueue' = S.isProcessingQueue
    /\ timers' = S.timers
    /\ drainPc' = S.drainPc
    /\ delayDue' = S.delayDue
    /\ promise' = S.promise
    /\ calls' = S.calls
    /\ dispatched' = S.dispatched
    /\ streak' = S.streak
    /\ trial' = S.trial
    /\ batch' = S.batch

\* fetch(url, ...) of the current attempt of request id.
fetch(S, id, t) ==
    [S EXCEPT !.calls = @ \cup {[id |-> id,
                                 attempt |-> S.promise[id].attempt,
                                 domain |-> extractDomain(S.promise[id].config.url),
                                 at |-> t]},
              !.promise[id].fetches = @ + 1]

\* executeRequest up to its first await: attempt 0 is on the wire.
executeRequest(S, id, via, t) ==
    fetch([S EXCEPT !.promise[id].status = "fetching",
                    !.promise[id].via = via,
                    !.promise[id].attempt = 0], id, t)

\* isCircuitOpen(domain) called on behalf of request id.  When the call closes
\* the breaker because the cooldown has elapsed, id is the domain's trial.
checkCircuit(S, id, domain, t) ==
    LET brk == isCircuitOpen(S.circuitBreaker, domain, t)
        closes == /\ domain \in DOMAIN S.circuitBreaker
                  /\ S.circuitBreaker[domain].isOpen
                  /\ ~brk.open
    IN  [open |-> brk.open,
         S |-> [S EXCEPT !.circuitBreaker = brk.circuitBreaker,
                         !.trial = IF closes THEN Put(@, domain, id) ELSE @]]

\* drainLoop that, when the head cannot be sent, goes on to the entry behind
\* it.
drainLoopSkipAhead(S, t) ==
    IF S.requestQueue = <<>>
    THEN [S EXCEPT !.isProcessingQueue = FALSE, !.drainPc = "idle"]
    ELSE LET blocked(request) ==
                 LET domain == extractDomain(request.config.url)
                 IN  \/ ~checkRateLimit(S.rateLimiter, domain, t).ok
                     \/ isCircuitOpen(S.circuitBreaker, domain, t).open
             at == IF Len(S.requestQueue) > 1 /\ blocked(S.requestQueue[1])
                   THEN 2 ELSE 1
             request == S.requestQueue[at]
             domain == extractDomain(request.config.url)
             lim == checkRateLimit(S.rateLimiter, domain, t)
             S1 == [S EXCEPT !.rateLimiter = lim.rateLimiter]
             brk == IF lim.ok
                    THEN checkCircuit(S1, request.id, domain, t)
                    ELSE [open |-> FALSE, S |-> S1]
         IN  IF lim.ok /\ ~brk.open
             THEN executeRequest(
                      [brk.S EXCEPT !.requestQueue =
                                        SubSeq(@, 1, at - 1) \o SubSeq(@, at + 1, Len(@)),
                                    !.drainPc = "execute",
                                    !.dispatched = Append(@, request.id)],
                      request.id, "queue", t)
             ELSE [brk.S EXCEPT !.isProcessingQueue = FALSE,
                                !.drainPc = "idle",
                                !.timers = Append(@, t + DrainRetryDelay)]

\* drainLoop that does not put back the head it cannot send.
drainLoopDropsHead(S, t) ==
    IF S.requestQueue = <<>>
    THEN [S EXCEPT !.isProcessingQueue = FALSE, !.drainPc = "idle"]
    ELSE LET request == Head(S.requestQueue)
             domain == extractDomain(request.config.url)
             lim == checkRateLimit(S.rateLimiter, domain, t)
             S1 == [S EXCEPT !.rateLimiter = lim.rateLimiter]
             brk == IF lim.ok
                    THEN checkCircuit(S1, request.id, domain, t)
                    ELSE [open |-> FALSE, S |-> S1]
         IN  IF lim.ok /\ ~brk.open
             THEN executeRequest(
                      [brk.S EXCEPT !.requestQueue = Tail(@),
                                    !.drainPc = "execute",
                                    !.dispatched = Append(@, request.id)],
                      request.id, "queue", t)
             ELSE [brk.S EXCEPT !.requestQueue = Tail(@),
                                !.isProcessingQueue = FALSE,
                                !.drainPc = "idle",
                                !.timers = IF Tail(S.requestQueue) # <<>>
                                           THEN Append(@, t + DrainRetryDelay)
                                           ELSE @]

\* drainLoop that sets no timer when it stops at a head it cannot send.
drainLoopNoReschedule(S, t) ==
    IF S.requestQueue = <<>>
    THEN [S EXCEPT !.isProcessingQueue = FALSE, !.drainPc = "idle"]
    ELSE LET request == Head(S.requestQueue)
             domain == extractDomain(request.config.url)
             lim == checkRateLimit(S.rateLimiter, domain, t)
             S1 == [S EXCEPT !.rateLimiter = lim.rateLimiter]
             brk == IF lim.ok
                    THEN checkCircuit(S1, request.id, domain, t)
                    ELSE [open |-> FALSE, S |-> S1]
         IN  IF lim.ok /\ ~brk.open
             THEN executeRequest(
                      [brk.S EXCEPT !.requestQueue = Tail(@),
                                    !.drainPc = "execute",
                                    !.dispatched = Append(@, request.id)],
                      request.id, "queue", t)
             ELSE [brk.S EXCEPT !.isProcessingQueue = FALSE,
                                !.drainPc = "idle"]

\* The loop of processQueue from the top of an iteration to its next await
\* or to its return.
drainLoop(S, t) ==
    IF S.requestQueue = <<>>
    THEN [S EXCEPT !.isProcessingQueue = FALSE, !.drainPc = "idle"]
    ELSE LET request == Head(S.requestQueue)
             domain == extractDomain(request.config.url)
             lim == checkRateLimit(S.rateLimiter, domain, t)
             S1 == [S EXCEPT !.rateLimiter = lim.rateLimiter]
             \* && evaluates isCircuitOpen only when checkRateLimit said yes
             brk == IF lim.ok
                    THEN checkCircuit(S1, request.id, domain, t)
                    ELSE [open |-> FALSE, S |-> S1]
         IN  IF lim.ok /\ ~brk.open
             THEN executeRequest(
                      [brk.S EXCEPT !.requestQueue = Tail(@),
                                    !.drainPc = "execute",
                                    !.dispatched = Append(@, request.id)],
                      request.id, "queue", t)
             ELSE \* shift, unshift, break; the queue is not empty
                  [brk.S EXCEPT !.isProcessingQueue = FALSE,
                                !.drainPc = "idle",
                                !.timers = Append(@, t + DrainRetryDelay)]

\* processQueue without the test of the processing flag.
processQueueReentrant(S, t) ==
    IF S.requestQueue = <<>>
    THEN S
    ELSE drainLoop([S EXCEPT !.isProcessingQueue = TRUE], t)

processQueue(S, t) ==
    IF S.isProcessingQueue \/ S.requestQueue = <<>>
    THEN S
    ELSE drainLoop([S EXCEPT !.isProcessingQueue = TRUE], t)

\* insertIndex with >= for > : a new request goes ahead of its equals.
insertIndexAheadOfEquals(queue, priority) ==
    LET later == {i \in 1..Len(queue) : queue[i].priority >= priority}
    IN  IF later = {} THEN 0 ELSE CHOOSE i \in later : \A j \in later : i <= j

\* findIndex(req => req.priority > priority), 0 for -1
insertIndex(queue, priority) ==
    LET later == {i \in 1..Len(queue) : queue[i].priority > priority}
    IN  IF later = {} THEN 0 ELSE CHOOSE i \in later : \A j \in later : i <= j

queueRequest(S, id, t) ==
    LET config == S.promise[id].config
        queuedRequest ==
            [id |-> id, config |-> config,
             priority |-> getPriorityIndex(
                 IF config.priority # "" THEN config.priority ELSE "medium"),
             timestamp |-> t]
        at == insertIndex(S.requestQueue, queuedRequest.priority)
        queue == IF at = 0
                 THEN Append(S.requestQueue, queuedRequest)
                 ELSE SubSeq(S.requestQueue, 1, at - 1) \o <<queuedRequest>>
                      \o SubSeq(S.requestQueue, at, Len(S.requestQueue))
    IN  processQueue([S EXCEPT !.requestQueue = queue,
                               !.promise[id].status = "queued",
                               !.promise[id].queuedWith =
                                   {queue[i].id : i \in 1..Len(queue)}], t)

\* An entry of the array a batch resolves with; done is FALSE until the
\* entry's request has settled.
NoResult ==
    [done |-> FALSE, success |-> FALSE, data |-> NoValue, error |-> "",
     duration |-> 0, fromCache |-> FALSE]

\* allSettled as Promise.all would do: over at the first failure.
allSettledFailFast(results) ==
    IF \/ \A i \in 1..Len(results) : results[i].done
       \/ \E i \in 1..Len(results) : results[i].done /\ ~results[i].success
    THEN "resolved" ELSE "pending"

\* Promise.allSettled(promises).then(...): the batch resolves once every
\* entry is there.
allSettled(results) ==
    IF \A i \in 1..Len(results) : results[i].done THEN "resolved" ELSE "pending"

\* The callback of batchRequests from its await of request(config) on: the
\* entry of request id in the results of its batch.
batchResult(S, id, t) ==
    LET p == S.promise[id]
        b == p.batch
        read == IF p.status = "resolved" /\ p.config.cacheKey # ""
                THEN getFromCache(S.requestCache, p.config.cacheKey, t)
                ELSE [data |-> NoValue, requestCache |-> S.requestCache]
        result == IF p.status = "resolved"
                  THEN [done |-> TRUE, success |-> TRUE, data |-> p.value,
                        error |-> "", duration |-> t - S.batch[b].startTime,
                        fromCache |-> p.config.cacheKey # "" /\ Truthy(read.data)]
                  ELSE [done |-> TRUE, success |-> FALSE, data |-> NoValue,
                        error |-> p.value.kind,
                        duration |-> t - S.batch[b].startTime,
                        fromCache |-> FALSE]
        results == [S.batch[b].results EXCEPT ![p.index] = result]
    IN  [S EXCEPT !.requestCache = read.requestCache,
                  !.batch[b].results = results,
                  !.batch[b].status = allSettled(results)]

\* The promise of request id settles.  The caller of a queued request is the
\* processQueue loop, which goes on to its 100 ms delay; the caller of a
\* request of a batch is the callback of batchRequests.
settle(S, id, status, value, t) ==
    LET S1 == [S EXCEPT !.promise[id].status = status,
                        !.promise[id].value = value,
                        !.trial = [d \in {e \in DOMAIN @ : @[e] # id} |-> @[d]]]
        S2 == IF S.promise[id].via = "queue"
              THEN [S1 EXCEPT !.drainPc = "delay", !.delayDue = t + InterRequestDelay]
              ELSE S1
    IN  IF S.promise[id].batch # 0 THEN batchResult(S2, id, t) ELSE S2

\* seq numbers the calls of request() in order; queuedWith is the set of
\* requests waiting in the queue when this one had been inserted; fetches
\* counts the calls of fetch made for the request and outcomes lists how they
\* ended; cacheRead tells what the request's read of the cache found; batch
\* and index place the request in a call of batchRequests (0: in none).
NewPromise(config, seq) ==
    [config |-> config, seq |-> seq, status |-> "new", via |-> "none",
     attempt |-> 0, fromCache |-> FALSE, value |-> NoValue, queuedWith |-> {},
     fetches |-> 0, outcomes |-> <<>>, cacheRead |-> "none",
     batch |-> 0, index |-> 0]

\* request that reads the cache whether or not skipCache is set.
requestIgnoresSkip(S, id, config, seq, t) ==
    LET domain == extractDomain(config.url)
        cached == IF config.cacheKey # ""
                  THEN getFromCache(S.requestCache, config.cacheKey, t)
                  ELSE [data |-> NoValue, requestCache |-> S.requestCache]
        found == IF config.cacheKey = "" THEN "none"
                 ELSE IF config.cacheKey \notin DOMAIN S.requestCache THEN "miss"
                 ELSE IF Expired(S.requestCache[config.cacheKey], t) THEN "expired"
                 ELSE "valid"
        S1 == [S EXCEPT !.promise = Put(@, id,
                            [NewPromise(config, seq) EXCEPT !.cacheRead = found]),
                        !.requestCache = cached.requestCache]
    IN  IF Truthy(cached.data)
        THEN settle([S1 EXCEPT !.promise[id].fromCache = TRUE],
                    id, "resolved", cached.data, t)
        ELSE LET brk == checkCircuit(S1, id, domain, t)
             IN  IF brk.open
                 THEN settle(brk.S, id, "rejected", CircuitOpenError, t)
                 ELSE LET lim == checkRateLimit(brk.S.rateLimiter, domain, t)
                          S3 == [brk.S EXCEPT !.rateLimiter = lim.rateLimiter]
                      IN  IF ~lim.ok
                          THEN queueRequest(S3, id, t)
                          ELSE executeRequest(S3, id, "direct", t)

\* request that asks the rate limiter before the breaker.
requestLimiterFirst(S, id, config, seq, t) ==
    LET domain == extractDomain(config.url)
        cached == IF config.cacheKey # "" /\ ~config.skipCache
                  THEN getFromCache(S.requestCache, config.cacheKey, t)
                  ELSE [data |-> NoValue, requestCache |-> S.requestCache]
        found == IF config.cacheKey = "" \/ config.skipCache THEN "none"
                 ELSE IF config.cacheKey \notin DOMAIN S.requestCache THEN "miss"
                 ELSE IF Expired(S.requestCache[config.cacheKey], t) THEN "expired"
                 ELSE "valid"
        S1 == [S EXCEPT !.promise = Put(@, id,
                            [NewPromise(config, seq) EXCEPT !.cacheRead = found]),
                        !.requestCache = cached.requestCache]
    IN  IF Truthy(cached.data)
        THEN settle([S1 EXCEPT !.promise[id].fromCache = TRUE],
                    id, "resolved", cached.data, t)
        ELSE LET lim == checkRateLimit(S1.rateLimiter, domain, t)
                 S2 == [S1 EXCEPT !.rateLimiter = lim.rateLimiter]
             IN  IF ~lim.ok
                 THEN queueRequest(S2, id, t)
                 ELSE LET brk == checkCircuit(S2, id, domain, t)
                      IN  IF brk.open
                          THEN settle(brk.S, id, "rejected", CircuitOpenError, t)
                          ELSE executeRequest(brk.S, id, "direct", t)

request(S, id, config, seq, t) ==
    LET domain == extractDomain(config.url)
        cached == IF config.cacheKey # "" /\ ~config.skipCache
                  THEN getFromCache(S.requestCache, config.cacheKey, t)
                  ELSE [data |-> NoValue, requestCache |-> S.requestCache]
        found == IF config.cacheKey = "" \/ config.skipCache THEN "none"
                 ELSE IF config.cacheKey \notin DOMAIN S.requestCache THEN "miss"
                 ELSE IF Expired(S.requestCache[config.cacheKey], t) THEN "expired"
                 ELSE "valid"
        S1 == [S EXCEPT !.promise = Put(@, id,
                            [NewPromise(config, seq) EXCEPT !.cacheRead = found]),
                        !.requestCache = cached.requestCache]
    IN  IF Truthy(cached.data)
        THEN settle([S1 EXCEPT !.promise[id].fromCache = TRUE],
                    id, "resolved", cached.data, t)
        ELSE LET brk == checkCircuit(S1, id, domain, t)
             IN  IF brk.open
                 THEN settle(brk.S, id, "rejected", CircuitOpenError, t)
                 ELSE LET lim == checkRateLimit(brk.S.rateLimiter, domain, t)
                          S3 == [brk.S EXCEPT !.rateLimiter = lim.rateLimiter]
                      IN  IF ~lim.ok
                          THEN queueRequest(S3, id, t)
                          ELSE executeRequest(S3, id, "direct", t)

\* The failed attempts of a domain in a row, and the time of the last one.
NoStreak == [failures |-> 0, lastFailure |-> 0]
StreakOf(S, domain) == IF domain \in DOMAIN S.streak THEN S.streak[domain] ELSE NoStreak

\* The pending fetch of request id completes: executeRequest from the await
\* to its next await, its return or its throw.
respond(S, id, outcome, t) ==
    LET p == S.promise[id]
        config == p.config
        domain == extractDomain(config.url)
        S0 == [S EXCEPT !.promise[id].outcomes = Append(@, outcome)]
    IN  IF outcome \in Success
        THEN LET data == PayloadOf(outcome, id, p.attempt)
                 S1 == [S0 EXCEPT
                          !.requestCache =
                              IF config.cacheKey # ""
                              THEN setCache(@, config.cacheKey, data,
                                            getCacheTTL(domain), t)
                              ELSE @,
                          !.circuitBreaker = resetCircuitBreaker(@, domain),
                          !.streak = Delete(@, domain)]
             IN  settle(S1, id, "resolved", data, t)
        ELSE LET S1 == [S0 EXCEPT
                          !.circuitBreaker = recordFailure(@, domain, t),
                          !.streak = Put(@, domain,
                              [failures |-> StreakOf(S, domain).failures + 1,
                               lastFailure |-> t])]
             IN  IF outcome = "AbortError" \/ Includes404(outcome)
                    \/ ~(p.attempt + 1 <= config.retries)
                 THEN settle(S1, id, "rejected",
                             FetchError(outcome, id, p.attempt), t)
                 ELSE fetch([S1 EXCEPT !.promise[id].attempt = @ + 1], id, t)

-----------------------------------------------------------------------------
(* Actions *)

Init ==
    /\ now = 0
    /\ ticks = 0
    /\ requestCache = <<>>
    /\ rateLimiter = <<>>
    /\ circuitBreaker = <<>>
    /\ requestQueue = <<>>
    /\ isProcessingQueue = FALSE
    /\ timers = <<>>
    /\ drainPc = "idle"
    /\ delayDue = 0
    /\ promise = <<>>
    /\ calls = {}
    /\ dispatched = <<>>
    /\ streak = <<>>
    /\ trial = <<>>
    /\ batch = <<>>

Ids == DOMAIN promise

\* The smallest request id not in use.
FreeId == CHOOSE id \in 1..(Cardinality(Ids) + 1) :
              /\ id \notin Ids
              /\ \A other \in 1..(id - 1) : other \in Ids

NextSeq == IF Ids = {} THEN 1
           ELSE 1 + (CHOOSE n \in {promise[id].seq : id \in Ids} :
                        \A id \in Ids : promise[id].seq <= n)

\* requests.map(async config => ... await this.request(config) ...): the
\* requests of batch b from the i-th on are made, in order, in one go.
RECURSIVE requestAll(_, _, _, _, _)
requestAll(S, b, requests, i, t) ==
    IF i > Len(requests)
    THEN S
    ELSE LET id == 1 + Cardinality(DOMAIN S.promise)
             S1 == [S EXCEPT !.batch[b].ids = Append(@, id),
                             !.batch[b].results = Append(@, NoResult)]
             S2 == request(S1, id, requests[i], id, t)
         IN  requestAll([S2 EXCEPT !.promise[id].batch = b,
                                   !.promise[id].index = i],
                        b, requests, i + 1, t)

\* The callbacks of the requests of batch b that settled within request()
\* resume once the map is over, from the i-th on.
RECURSIVE resumeAll(_, _, _, _)
resumeAll(S, b, i, t) ==
    IF i > Len(S.batch[b].ids)
    THEN S
    ELSE LET id == S.batch[b].ids[i]
         IN  resumeAll(IF S.promise[id].status \in {"resolved", "rejected"}
                       THEN batchResult(S, id, t) ELSE S,
                       b, i + 1, t)

batchRequests(S, requests, t) ==
    LET b == 1 + Cardinality(DOMAIN S.batch)
        S1 == [S EXCEPT !.batch = Put(@, b,
                  [requests |-> requests, ids |-> <<>>, startTime |-> t,
                   results |-> <<>>, status |-> "pending"])]
        S2 == resumeAll(requestAll(S1, b, requests, 1, t), b, 1, t)
    IN  [S2 EXCEPT !.batch[b].status = allSettled(S2.batch[b].results)]

\* A caller calls batchRequests(requests).
BatchRequests(requests) ==
    /\ Commit(batchRequests(Cur, requests, now))
    /\ UNCHANGED <<now, ticks>>

\* A caller calls request(config).
Request(config) ==
    /\ Commit(request(Cur, FreeId, config, NextSeq, now))
    /\ UNCHANGED <<now, ticks>>

\* The pending fetch of request id completes.
Respond(id, outcome) ==
    /\ id \in Ids
    /\ promise[id].status = "fetching"
    /\ Commit(respond(Cur, id, outcome, now))
    /\ UNCHANGED <<now, ticks>>

\* A setTimeout(() => this.processQueue(), 1000) fires.
TimerFire ==
    /\ timers # <<>>
    /\ Head(timers) <= now
    /\ Commit(processQueue([Cur EXCEPT !.timers = Tail(@)], now))
    /\ UNCHANGED <<now, ticks>>

\* The 100 ms delay of the processQueue loop ends: next iteration.
DrainResume ==
    /\ drainPc = "delay"
    /\ delayDue <= now
    /\ Commit(drainLoop(Cur, now))
    /\ UNCHANGED <<now, ticks>>

TimersDue ==
    {timers[i] : i \in 1..Len(timers)}
    \cup (IF drainPc = "delay" THEN {delayDue} ELSE {})

\* The instants at which the passing of time changes what the optimizer does:
\* a timer comes due, a limiter window ends, the cooldown of an open breaker
\* has elapsed, a cache entry has expired.
Deadlines ==
    TimersDue
    \cup {rateLimiter[d].resetTime : d \in DOMAIN rateLimiter}
    \cup {circuitBreaker[d].lastFailure + CIRCUIT_BREAKER_CONFIG.resetTimeout + 1 :
             d \in {e \in DOMAIN circuitBreaker : circuitBreaker[e].isOpen}}
    \cup {requestCache[k].timestamp + requestCache[k].ttl + 1 : k \in DOMAIN requestCache}

\* A fetch to a rate-limited domain made less than one window before t.
InWindow(c, t) ==
    /\ c.domain \in DOMAIN RATE_LIMITS
    /\ t - c.at < RATE_LIMITS[c.domain].window

\* Time passes, up to one of the deadlines ahead.  Timers are punctual: the
\* clock does not pass the due time of a pending timer before it has fired.
Advance(t) ==
    /\ t > now
    /\ \A due \in TimersDue : t <= due
    /\ now' = t
    /\ ticks' = ticks + 1
    /\ calls' = {c \in calls : InWindow(c, t)}
    /\ UNCHANGED <<requestCache, rateLimiter, circuitBreaker, requestQueue,
                   isProcessingQueue, timers, drainPc, delayDue, promise,
                   dispatched, streak, trial, batch>>

\* x, or the floor lo when x is below it.
Floor(x, lo) == IF x < lo THEN lo ELSE x

\* The state S with every stored time counted from delta later.  A time that
\* lies so far back that every comparison the code makes with Date.now() has
\* the same outcome from now on is kept at the latest such value: an ended
\* limiter window at 0, the last failure of a breaker one cooldown back, a
\* cache entry one TTL back.
Rebase(S, delta) ==
    [S EXCEPT
        !.requestCache = [k \in DOMAIN S.requestCache |->
            [S.requestCache[k] EXCEPT
                !.timestamp = Floor(@ - delta, 0 - (S.requestCache[k].ttl + 1))]],
        !.rateLimiter = [d \in DOMAIN S.rateLimiter |->
            [S.rateLimiter[d] EXCEPT !.resetTime = Floor(@ - delta, 0)]],
        !.circuitBreaker = [d \in DOMAIN S.circuitBreaker |->
            [S.circuitBreaker[d] EXCEPT
                !.lastFailure = Floor(@ - delta,
                                      0 - (CIRCUIT_BREAKER_CONFIG.resetTimeout + 1))]],
        !.requestQueue = [i \in 1..Len(S.requestQueue) |->
            [S.requestQueue[i] EXCEPT !.timestamp = Floor(@ - delta, 0)]],
        !.timers = [i \in 1..Len(S.timers) |-> Floor(S.timers[i] - delta, 0)],
        !.delayDue = Floor(@ - delta, 0),
        !.calls = {[c EXCEPT !.at = @ - delta] : c \in S.calls},
        !.streak = [d \in DOMAIN S.streak |->
            [S.streak[d] EXCEPT
                !.lastFailure = Floor(@ - delta,
                                      0 - (CIRCUIT_BREAKER_CONFIG.resetTimeout + 1))]]]

\* Time passes as in Advance, with the clock read relative to the new instant:
\* now stays where it is and the stored times move back.
Elapse(t) ==
    /\ t > now
    /\ \A due \in TimersDue : t <= due
    /\ Commit(Rebase([Cur EXCEPT !.calls = {c \in calls : InWindow(c, t)}], t - now))
    /\ UNCHANGED <<now, ticks>>

\* The promise of a settled request, whose fetches have left the limiter's
\* window, is let go by its caller; the order of the remaining calls is kept.
Forget(id) ==
    /\ id \in Ids
    /\ promise[id].status \in {"resolved", "rejected"}
    /\ \A c \in calls : c.id # id
    /\ promise' = [other \in Ids \ {id} |->
           [promise[other] EXCEPT
               !.seq = Cardinality({third \in Ids \ {id} :
                                       promise[third].seq <= promise[other].seq}),
               !.queuedWith = @ \ {id}]]
    /\ dispatched' = SelectSeq(dispatched, LAMBDA sent : sent # id)
    /\ UNCHANGED <<now, ticks, requestCache, rateLimiter, circuitBreaker,
                   requestQueue, isProcessingQueue, timers, drainPc, delayDue,
                   calls, streak, trial, batch>>

-----------------------------------------------------------------------------
(* Inputs and specifications *)

Nominatim == [absolute |-> TRUE, hostname |-> "nominatim.openstreetmap.org"]
Relative == [absolute |-> FALSE, hostname |-> ""]
IpApi == [absolute |-> TRUE, hostname |-> "ip-api.com"]
IpapiCo == [absolute |-> TRUE, hostname |-> "ipapi.co"]

NextOf(configs, outcomes, maxRequests, maxTicks) ==
    \/ \E config \in configs : Cardinality(Ids) < maxRequests /\ Request(config)
    \/ \E id \in 1..maxRequests, outcome \in outcomes : Respond(id, outcome)
    \/ TimerFire
    \/ DrainResume
    \/ \E t \in Deadlines : ticks < maxTicks /\ Advance(t)

\* Requests to the one-per-second domain that succeed or fail, with and
\* without retries: the limiter and the breaker.
Configs ==
    [url : {Nominatim}, retries : {0, 4}, cacheKey : {""},
     priority : {"medium"}, skipCache : {FALSE}]
Outcomes == {"ok", "HTTP 500"}

Next == NextOf(Configs, Outcomes, MaxRequests, MaxTicks)

Spec == Init /\ [][Next]_vars

\* Requests of every priority to the one-per-second domain: the queue.
Priorities == {"high", "medium", "low"}
QueueConfigs ==
    [url : {Nominatim}, retries : {0}, cacheKey : {""},
     priority : Priorities, skipCache : {FALSE}]
QueueOutcomes == {"ok"}

NextQueue == NextOf(QueueConfigs, QueueOutcomes, MaxQueueRequests, MaxQueueTicks)

SpecQueue == Init /\ [][NextQueue]_vars

\* Requests with a cache key to the one-per-second domain: the cache.
CacheConfigs ==
    [url : {Nominatim}, retries : {0}, cacheKey : {"k1"},
     priority : {"medium"}, skipCache : BOOLEAN]
CacheOutcomes == {"ok", "ok falsy", "HTTP 500"}

NextCache == NextOf(CacheConfigs, CacheOutcomes, MaxCacheRequests, MaxCacheTicks)

SpecCache == Init /\ [][NextCache]_vars

\* Requests with a cache key to the one-per-second domain, those that skip
\* the cache with retries enough to open the breaker: cache entries, old ones
\* too, and an open breaker.
FrameConfigs ==
    [url : {Nominatim}, retries : {0}, cacheKey : {"k1"},
     priority : {"medium"}, skipCache : {FALSE}]
    \cup [url : {Nominatim}, retries : {4}, cacheKey : {"k1"},
          priority : {"medium"}, skipCache : {TRUE}]
FrameOutcomes == {"ok", "HTTP 500"}

NextFrame == NextOf(FrameConfigs, FrameOutcomes, MaxFrameRequests, MaxFrameTicks)

SpecFrame == Init /\ [][NextFrame]_vars

\* Requests to the one-per-second domain that succeed or fail, over the time
\* it takes to send two of them from the queue.
SettleConfigs ==
    [url : {Nominatim}, retries : {0, 1}, cacheKey : {""},
     priority : {"medium"}, skipCache : {FALSE}]
SettleOutcomes == {"ok", "HTTP 500"}

NextSettle == NextOf(SettleConfigs, SettleOutcomes, MaxSettleRequests, MaxSettleTicks)

SpecSettle == Init /\ [][NextSettle]_vars

\* Requests to two rate-limited domains.  The run starts at time 0 with all
\* but at most MaxQuotaSpare of the 45 requests per minute of ip-api.com made
\* by callers whose promises are settled and gone (their fetches are the
\* calls with ids below 1).
QuotaConfigs ==
    [url : {Nominatim, IpApi}, retries : {0}, cacheKey : {""},
     priority : {"medium"}, skipCache : {FALSE}]
QuotaOutcomes == {"ok"}

\* The state at time 0 after used requests to ip-api.com.
InitUsed(used) ==
    /\ now = 0
    /\ ticks = 0
    /\ requestCache = <<>>
    /\ rateLimiter = Put(<<>>, "ip-api.com",
           [count |-> used, resetTime |-> RATE_LIMITS["ip-api.com"].window])
    /\ circuitBreaker = <<>>
    /\ requestQueue = <<>>
    /\ isProcessingQueue = FALSE
    /\ timers = <<>>
    /\ drainPc = "idle"
    /\ delayDue = 0
    /\ promise = <<>>
    /\ calls = {[id |-> 0 - k, attempt |-> 0, domain |-> "ip-api.com", at |-> 0] :
                   k \in 1..used}
    /\ dispatched = <<>>
    /\ streak = <<>>
    /\ trial = <<>>
    /\ batch = <<>>

InitQuota ==
    \E used \in (RATE_LIMITS["ip-api.com"].requests - MaxQuotaSpare)
                    ..RATE_LIMITS["ip-api.com"].requests : InitUsed(used)

NextQuota == NextOf(QuotaConfigs, QuotaOutcomes, MaxQuotaRequests, MaxQuotaTicks)

SpecQuota == InitQuota /\ [][NextQuota]_vars

\* The minute's quota of ip-api.com all used, and requests that also fail,
\* those to nominatim often enough to open its breaker: the head of the queue
\* is held up by a used-up quota or by an open breaker.
HeadConfigs ==
    [url : {Nominatim}, retries : {4}, cacheKey : {""},
     priority : {"medium"}, skipCache : {FALSE}]
    \cup [url : {IpApi}, retries : {0}, cacheKey : {""},
          priority : {"medium"}, skipCache : {FALSE}]
HeadOutcomes == {"ok", "HTTP 500"}

NextHead == NextOf(HeadConfigs, HeadOutcomes, MaxHeadRequests, MaxHeadTicks)

InitHead == InitUsed(RATE_LIMITS["ip-api.com"].requests)

SpecHead == InitHead /\ [][NextHead]_vars

\* Requests with a URL that does not parse, with and without retries, whose
\* attempts end in every way a fetch can end.  Such requests are not queued,
\* so no timer is ever set.
RetryConfigs ==
    [url : {Relative}, retries : {0, 3}, cacheKey : {""},
     priority : {"medium"}, skipCache : {FALSE}]
RetryOutcomes ==
    {"ok", "HTTP 500", "HTTP 404", "AbortError", "HTTP 502: upstream 404"}

NextRetry ==
    \/ \E config \in RetryConfigs :
           Cardinality(Ids) < MaxRetryRequests /\ Request(config)
    \/ \E id \in 1..MaxRetryRequests, outcome \in RetryOutcomes : Respond(id, outcome)
    \/ \E t \in Deadlines : ticks < MaxRetryTicks /\ Advance(t)

SpecRetry == Init /\ [][NextRetry]_vars

\* Requests with a cache key to ipapi.co, whose quota of 1000 per minute is
\* out of reach, so none is queued and no timer is ever set.  The run starts
\* at time 0 with the cache filled up to the ceiling, or up to MaxCeilingSpare
\* entries below it, by requests made 20 minutes before: those with an odd
\* key to URLs that do not parse (a TTL of 15 minutes, over by now), those
\* with an even key to ipapi.co (a TTL of 30 minutes).
FillTime == 0 - 20 * 60 * 1000

\* The cache key of the i-th request that filled the cache.
FillKey(i) == ToString(i)

FillEntry(i) ==
    [data |-> Payload(0 - i, 0), timestamp |-> FillTime,
     ttl |-> getCacheTTL(IF i % 2 = 1 THEN "unknown" ELSE "ipapi.co")]

InitFilled(entries) ==
    /\ now = 0
    /\ ticks = 0
    /\ requestCache = [k \in {FillKey(i) : i \in 1..entries} |->
                          FillEntry(CHOOSE i \in 1..entries : FillKey(i) = k)]
    /\ rateLimiter = Put(<<>>, "ipapi.co",
           [count |-> entries \div 2,
            resetTime |-> FillTime + RATE_LIMITS["ipapi.co"].window])
    /\ circuitBreaker = <<>>
    /\ requestQueue = <<>>
    /\ isProcessingQueue = FALSE
    /\ timers = <<>>
    /\ drainPc = "idle"
    /\ delayDue = 0
    /\ promise = <<>>
    /\ calls = {}
    /\ dispatched = <<>>
    /\ streak = <<>>
    /\ trial = <<>>
    /\ batch = <<>>

InitCeiling ==
    \E entries \in (CacheCeiling - MaxCeilingSpare)..CacheCeiling : InitFilled(entries)

CeilingConfigs ==
    [url : {IpapiCo}, retries : {0}, cacheKey : {"k1", FillKey(1)},
     priority : {"medium"}, skipCache : {FALSE}]
CeilingOutcomes == {"ok"}

NextCeiling ==
    \/ \E config \in CeilingConfigs :
           Cardinality(Ids) < MaxCeilingRequests /\ Request(config)
    \/ \E id \in 1..MaxCeilingRequests, outcome \in CeilingOutcomes :
           Respond(id, outcome)
    \/ \E t \in Deadlines : ticks < MaxCeilingTicks /\ Advance(t)

SpecCeiling == InitCeiling /\ [][NextCeiling]_vars

\* Batches of up to MaxBatchSize requests, and single requests, to the
\* one-per-second domain, with and without a cache key.
BatchConfigs ==
    [url : {Nominatim}, retries : {0}, cacheKey : {"", "k1"},
     priority : {"medium"}, skipCache : {FALSE}]
BatchOutcomes == {"ok", "HTTP 500"}
BatchInputs ==
    UNION {[1..k -> BatchConfigs] : k \in 0..MaxBatchSize}

NextBatch ==
    \/ \E requests \in BatchInputs :
           /\ Cardinality(DOMAIN batch) < MaxBatches
           /\ Cardinality(Ids) + Len(requests) <= MaxBatchRequests
           /\ BatchRequests(requests)
    \/ NextOf(BatchConfigs, BatchOutcomes, MaxBatchRequests, MaxBatchTicks)

SpecBatch == Init /\ [][NextBatch]_vars

\* Requests to the one-per-second domain that keep arriving: callers let go
\* of settled promises, and time is read relative to the present instant.
\* Every refused drain leaves one more setTimeout pending, so callers are
\* held back while MaxLiveTimers of them are pending.
LiveConfigs ==
    [url : {Nominatim}, retries : {0}, cacheKey : {""},
     priority : {"medium"}, skipCache : {FALSE}]
LiveOutcomes == {"ok"}

NextLive ==
    \/ \E config \in LiveConfigs :
           /\ Cardinality(Ids) < MaxLiveRequests
           /\ Len(timers) < MaxLiveTimers
           /\ Request(config)
    \/ \E id \in 1..MaxLiveRequests, outcome \in LiveOutcomes : Respond(id, outcome)
    \/ TimerFire
    \/ DrainResume
    \/ \E t \in Deadlines : Elapse(t)
    \/ \E id \in 1..MaxLiveRequests : Forget(id)

\* Timers fire, every fetch completes (or is aborted by its timeout), and
\* time passes; nothing is assumed of the callers.
Fairness ==
    /\ WF_vars(TimerFire)
    /\ WF_vars(DrainResume)
    /\ \A id \in 1..MaxLiveRequests :
           WF_vars(\E outcome \in LiveOutcomes : Respond(id, outcome))
    /\ WF_vars(\E t \in Deadlines : Elapse(t))

SpecLive == Init /\ [][NextLive]_vars /\ Fairness

-----------------------------------------------------------------------------
(* Claims about the rate limiter and the circuit breaker, under Spec *)

\* The fetches to domain d made less than one window of d ago.
CallsInWindow(d) == {c \in calls : c.domain = d /\ InWindow(c, now)}

\* C1: for every domain with a quota of N requests per window W, no more than
\* N network calls to the domain are made within any interval of length W
\* (direct sends, retries and queued sends alike).
C1_QuotaPerWindow ==
    \A d \in DOMAIN RATE_LIMITS :
        Cardinality(CallsInWindow(d)) <= RATE_LIMITS[d].requests

\* The request() call of this step, if it is one.
Arrived == (DOMAIN promise') \ DOMAIN promise

\* request() to domain d would be rejected by the breaker.
Rejects(breakers, d, t) == isCircuitOpen(breakers, d, t).open

\* C4: after 5 failures in a row from a domain, with no success in between, the
\* next request() to the domain that is not answered from the cache (and comes
\* before the cooldown has elapsed) is rejected at once with the circuit-open
\* error, and no fetch is made.
C4_RejectedAfterFiveFailures ==
    [][\A id \in Arrived :
         LET d == extractDomain(promise'[id].config.url)
         IN  (/\ StreakOf(Cur, d).failures >= 5
              /\ now - StreakOf(Cur, d).lastFailure <= 60000
              /\ ~promise'[id].fromCache)
             => /\ promise'[id].status = "rejected"
                /\ promise'[id].value = CircuitOpenError
                /\ calls' = calls]_vars

\* C5: once the cooldown of an open breaker has elapsed, one trial request to
\* the domain is let through, and until that trial has succeeded or failed no
\* other request to the domain is sent.
C5_OneTrialAtATime ==
    [][\A d \in DOMAIN trial' :
         \A c \in calls' \ calls : c.domain = d => c.id = trial'[d]]_vars

\* C6: once the breaker of a domain rejects requests, it goes on rejecting
\* them until 60 s have passed since the domain's last recorded failure,
\* whatever else happens (the completion of a request in flight included).
C6_OpenUntilCooldown ==
    [][\A d \in DOMAIN circuitBreaker :
         (/\ Rejects(circuitBreaker, d, now)
          /\ now' - circuitBreaker[d].lastFailure <= 60000)
         => Rejects(circuitBreaker', d, now')]_vars

\* C7: when the trial request admitted after the cooldown fails, the breaker
\* is open again at once, with the cooldown counted from that failure; when it
\* succeeds, the breaker state of the domain is cleared.
C7_TrialDecides ==
    [][\A d \in DOMAIN trial :
         LET id == trial[d]
         IN  /\ (promise[id].status = "fetching" /\ promise'[id].status = "rejected")
                => /\ Rejects(circuitBreaker', d, now')
                   /\ circuitBreaker'[d].lastFailure = now
             /\ (promise[id].status = "fetching" /\ promise'[id].status = "resolved")
                => d \notin DOMAIN circuitBreaker']_vars

-----------------------------------------------------------------------------
(* Claims about the queue, under SpecQueue *)

\* The rank of a caller's priority tag: high before medium before low.
TagRank(tag) == CASE tag = "high" -> 0 [] tag = "medium" -> 1 [] tag = "low" -> 2

TagOf(id) == promise[id].config.priority

\* C8: the queue is ordered by the callers' priority tags: every waiting
\* 'high' request is ahead of every 'medium' one, every 'medium' ahead of
\* every 'low'.
C8_QueueOrderedByTag ==
    \A i, j \in 1..Len(requestQueue) :
        i < j => TagRank(requestQueue[i].config.priority)
                     <= TagRank(requestQueue[j].config.priority)

\* The place of request id in the order of dispatch, 0 when it is not sent yet.
Pos(id) ==
    IF \E i \in 1..Len(dispatched) : dispatched[i] = id
    THEN CHOOSE i \in 1..Len(dispatched) : dispatched[i] = id
    ELSE 0

\* Request a is sent from the queue before request b, which waits or follows.
SentBefore(a, b) == Pos(a) # 0 /\ (Pos(b) = 0 \/ Pos(a) < Pos(b))

Waiting(id) == id \in Ids /\ promise[id].status = "queued"

\* C9: queued requests of equal priority keep their order of insertion: in
\* the queue, and in the order they are sent from it, also across the drain
\* cycles that put the head back.
C9_FifoAmongEqualPriority ==
    /\ \A i, j \in 1..Len(requestQueue) :
          (i < j /\ requestQueue[i].priority = requestQueue[j].priority)
              => promise[requestQueue[i].id].seq < promise[requestQueue[j].id].seq
    /\ \A a, b \in Ids :
          (/\ promise[a].seq < promise[b].seq
           /\ a \in promise[b].queuedWith
           /\ getPriorityIndex(TagOf(a)) = getPriorityIndex(TagOf(b)))
              => Pos(b) = 0 \/ SentBefore(a, b)

\* Two requests of equal priority that waited together have both been sent.
C9_Witness ==
    \E a, b \in Ids :
        /\ TagOf(a) = TagOf(b)
        /\ promise[a].seq < promise[b].seq
        /\ a \in promise[b].queuedWith
        /\ Pos(a) # 0 /\ Pos(b) # 0

\* low, high and medium were enqueued in this order while the quota was used
\* up, and waited together.
LowHighMedium(a, b, c) ==
    /\ TagOf(a) = "low" /\ TagOf(b) = "high" /\ TagOf(c) = "medium"
    /\ promise[a].seq < promise[b].seq /\ promise[b].seq < promise[c].seq
    /\ a \in promise[b].queuedWith
    /\ {a, b} \subseteq promise[c].queuedWith

\* C10: three requests enqueued in the order [low, high, medium] while the
\* quota is used up are sent in the order [high, medium, low].
C10_LowHighMediumDrain ==
    \A a, b, c \in Ids :
        LowHighMedium(a, b, c)
            => /\ Pos(c) # 0 => SentBefore(b, c)
               /\ Pos(a) # 0 => SentBefore(c, a)

C10_Witness ==
    \E a, b, c \in Ids :
        /\ LowHighMedium(a, b, c)
        /\ Pos(b) # 0 /\ Pos(c) # 0 /\ Pos(a) # 0

-----------------------------------------------------------------------------
(* Claims about the cache, under SpecCache *)

KeyOf(id) == promise[id].config.cacheKey
Cacheable(id) == KeyOf(id) # "" /\ ~promise[id].config.skipCache

\* Request a is the first call with its cache key.
FirstWithKey(a) == \A b \in Ids : KeyOf(b) = KeyOf(a) => promise[a].seq <= promise[b].seq

\* C3: of the request() calls with one cache key (skipCache unset) issued
\* within the TTL, only the first makes a network call, and every later one
\* returns the payload the first one got, however the calls interleave.
C3_OneFetchPerKey ==
    \A a, b \in Ids :
        (/\ Cacheable(a) /\ Cacheable(b) /\ KeyOf(a) = KeyOf(b)
         /\ FirstWithKey(a) /\ promise[a].seq < promise[b].seq
         /\ promise[a].status = "resolved"
         /\ now < getCacheTTL(extractDomain(promise[a].config.url)))
        => /\ promise[b].via = "none"
           /\ promise[b].status = "resolved" => promise[b].value = promise[a].value

-----------------------------------------------------------------------------
(* Claims about waiting requests, under SpecLive *)

\* The rate limiter refuses a request to domain d made now: the quota of the
\* running window is used up.
Refuses(d) == ~checkRateLimit(rateLimiter, d, now).ok

\* Request id has left the queue for the network.
Sent(id) == id \in Ids /\ promise[id].via = "queue" /\ promise[id].status # "queued"

\* C2: a request() the rate limiter refuses is enqueued, it is not dropped
\* and not rejected while it waits, and it is eventually sent to the network,
\* also when other request() calls to the same domain keep arriving.
C2_RefusedIsQueuedAndSent ==
    /\ [][/\ \A id \in Arrived :
               Refuses(extractDomain(promise'[id].config.url))
                   => /\ promise'[id].status = "queued"
                      /\ \E i \in 1..Len(requestQueue') : requestQueue'[i].id = id
          /\ \A id \in Ids :
               Waiting(id) => /\ id \in DOMAIN promise'
                              /\ promise'[id].status \in {"queued", "fetching"}]_vars
    /\ \A id \in 1..MaxLiveRequests : Waiting(id) ~> Sent(id)

-----------------------------------------------------------------------------
(* Claims about batchRequests, under SpecBatch *)

Settled(id) == promise[id].status \in {"resolved", "rejected"}

\* C11: batchRequests(requests) with K requests does not reject; its result
\* has exactly K entries, entry i for requests[i]; entry i has success = true
\* and the payload exactly when request(requests[i]) resolved, success = false
\* and an error message when it rejected, whatever became of the others; the
\* batch resolves when all K requests have settled, not before.
C11_BatchOutcomes ==
    \A b \in DOMAIN batch :
        LET K == Len(batch[b].requests)
        IN  /\ Len(batch[b].ids) = K
            /\ Len(batch[b].results) = K
            /\ batch[b].status \in {"pending", "resolved"}
            /\ batch[b].status = "resolved"
                   <=> \A i \in 1..K : Settled(batch[b].ids[i])
            /\ \A i \in 1..K :
                   LET p == promise[batch[b].ids[i]]
                       r == batch[b].results[i]
                   IN  /\ p.config = batch[b].requests[i]
                       /\ r.done <=> p.status \in {"resolved", "rejected"}
                       /\ p.status = "resolved" => r.success /\ r.data = p.value
                       /\ p.status = "rejected"
                              => ~r.success /\ r.error = p.value.kind /\ r.error # ""

\* A batch of two has resolved with a failure first and a success second.
C11_Witness ==
    \E b \in DOMAIN batch :
        /\ batch[b].status = "resolved"
        /\ Len(batch[b].results) = 2
        /\ ~batch[b].results[1].success
        /\ batch[b].results[2].success

-----------------------------------------------------------------------------
(* Claims about retries and the sentinel domain, under SpecRetry *)

\* A failure the retry policy is meant to retry: a non-2xx status other than
\* 404, and not an abort.
Retryable(outcome) ==
    outcome \notin Success /\ outcome \notin {"AbortError", "HTTP 404"}

\* C12: a request with retries = r whose every attempt fails with a retryable
\* error (a non-2xx status other than 404, not an abort) makes exactly r + 1
\* network attempts and then rejects with the error of the last attempt.
C12_AllAttemptsMade ==
    \A id \in Ids :
        LET p == promise[id]
        IN  (/\ p.outcomes # <<>>
             /\ \A i \in 1..Len(p.outcomes) : Retryable(p.outcomes[i]))
            => IF p.status = "rejected"
               THEN /\ p.fetches = p.config.retries + 1
                    /\ p.value = FetchError(p.outcomes[Len(p.outcomes)], id,
                                            p.config.retries)
               ELSE p.status = "fetching" /\ p.fetches <= p.config.retries + 1

\* C13: an attempt that ends in a timeout abort (AbortError) or in HTTP 404
\* is the last one, also when retries remain: no further fetch is made and
\* the request rejects with that error.
C13_AbortAnd404AreFinal ==
    \A id \in Ids :
        LET p == promise[id]
        IN  \A i \in 1..Len(p.outcomes) :
                p.outcomes[i] \in {"AbortError", "HTTP 404"}
                    => /\ i = Len(p.outcomes)
                       /\ p.fetches = i
                       /\ p.status = "rejected"
                       /\ p.value = FetchError(p.outcomes[i], id, i - 1)

\* With retries left, a first attempt was aborted and a first attempt got 404.
C13_Witness ==
    \E a, b \in Ids :
        /\ promise[a].config.retries = 3 /\ promise[a].outcomes = <<"AbortError">>
        /\ promise[b].config.retries = 3 /\ promise[b].outcomes = <<"HTTP 404">>

\* C16: a request whose URL does not parse is accounted under the domain
\* 'unknown'; that domain is never rate-limited, so the request is never
\* queued, and its breaker never opens, however many such requests fail.
C16_UnknownNeverLimitedNorTripped ==
    /\ "unknown" \notin DOMAIN rateLimiter
    /\ "unknown" \in DOMAIN circuitBreaker => ~circuitBreaker["unknown"].isOpen
    /\ \A id \in Ids :
           extractDomain(promise[id].config.url) = "unknown"
               => /\ promise[id].status # "queued"
                  /\ promise[id].via # "queue"
                  /\ promise[id].value # CircuitOpenError

FailuresOf(breakers, d) == IF d \in DOMAIN breakers THEN breakers[d].failures ELSE 0

\* The requests to domain d that reject in this step with the error of their
\* last attempt.
FailedRequests(d) ==
    {id \in Ids : /\ extractDomain(promise[id].config.url) = d
                  /\ promise[id].status = "fetching"
                  /\ promise'[id].status = "rejected"}

\* C17: a request that has made all its attempts records one failure against
\* the breaker of its domain: the failure count grows by 1 for a failed
\* request, not for a failed attempt.
C17_OneFailurePerRequest ==
    [][\A d \in DOMAIN circuitBreaker' :
         FailuresOf(circuitBreaker', d) > FailuresOf(circuitBreaker, d)
             => /\ FailedRequests(d) # {}
                /\ FailuresOf(circuitBreaker', d) = FailuresOf(circuitBreaker, d) + 1]_vars

-----------------------------------------------------------------------------
(* Claims about reads of the cache, under SpecCache *)

\* What becomes of a request to domain d that is not answered from the cache.
Admission(d) ==
    IF Rejects(circuitBreaker, d, now) THEN "rejected"
    ELSE IF ~checkRateLimit(rateLimiter, d, now).ok THEN "queued"
    ELSE "fetching"

\* C14: request() never returns a cached payload whose entry has
\* now > timestamp + ttl: the entry is deleted on that read and the request
\* goes on to the breaker and the rate limiter as if nothing were cached.
C14_ExpiredNeverReturned ==
    [][\A id \in Arrived :
         LET config == promise'[id].config
         IN  (/\ config.cacheKey # "" /\ ~config.skipCache
              /\ config.cacheKey \in DOMAIN requestCache
              /\ Expired(requestCache[config.cacheKey], now))
             => /\ ~promise'[id].fromCache
                /\ config.cacheKey \notin DOMAIN requestCache'
                /\ promise'[id].status = Admission(extractDomain(config.url))]_vars

\* A request read an expired entry of its key and went to the network.
C14_Witness ==
    \E id \in Ids : promise[id].cacheRead = "expired" /\ promise[id].fetches = 1

\* C19: a request() with a cacheKey, skipCache unset and a valid (unexpired)
\* cache entry returns the cached payload without a network call, also when
\* the breaker of the domain is open or its quota is used up, and changes
\* nothing in the rate limiter, the breaker or the queue.
C19_ValidEntryAnswers ==
    [][\A id \in Arrived :
         LET config == promise'[id].config
         IN  (/\ config.cacheKey # "" /\ ~config.skipCache
              /\ config.cacheKey \in DOMAIN requestCache
              /\ ~Expired(requestCache[config.cacheKey], now))
             => /\ promise'[id].status = "resolved"
                /\ promise'[id].value = requestCache[config.cacheKey].data
                /\ promise'[id].fetches = 0
                /\ calls' = calls
                /\ rateLimiter' = rateLimiter
                /\ circuitBreaker' = circuitBreaker
                /\ requestQueue' = requestQueue]_vars

-----------------------------------------------------------------------------
(* Claims about the limiter's window, under SpecQuota, and about the head of
   the queue, under SpecHead *)

\* C15: the count of every domain's limiter is at most the quota of the
\* domain; within a window an admission adds 1 to the count and leaves the
\* window alone; the count is restarted (at 1, for the admission that
\* restarts it) only at or after the stored resetTime, and the new window
\* ends W after that admission.
C15_CountWithinQuota ==
    /\ [](\A d \in DOMAIN rateLimiter : rateLimiter[d].count <= RATE_LIMITS[d].requests)
    /\ [][\A d \in DOMAIN rateLimiter' :
            LET new == rateLimiter'[d]
                W == RATE_LIMITS[d].window
            IN  /\ new.count <= RATE_LIMITS[d].requests
                /\ \/ d \in DOMAIN rateLimiter /\ new = rateLimiter[d]
                   \/ /\ d \in DOMAIN rateLimiter
                      /\ now < rateLimiter[d].resetTime
                      /\ new.resetTime = rateLimiter[d].resetTime
                      /\ new.count = rateLimiter[d].count + 1
                   \/ /\ d \in DOMAIN rateLimiter => now >= rateLimiter[d].resetTime
                      /\ new.count = 1
                      /\ new.resetTime = now + W]_vars

DomainOf(id) == extractDomain(promise[id].config.url)

\* The last slot of ip-api.com's minute was taken in this run and a later
\* request to it waits; the window of nominatim was restarted.
C15_Witness ==
    /\ "nominatim.openstreetmap.org" \in DOMAIN rateLimiter
    /\ rateLimiter["nominatim.openstreetmap.org"].resetTime
           > RATE_LIMITS["nominatim.openstreetmap.org"].window
    /\ rateLimiter["ip-api.com"].count = RATE_LIMITS["ip-api.com"].requests
    /\ \E a, b \in Ids :
           /\ DomainOf(a) = "ip-api.com" /\ promise[a].via = "direct"
           /\ DomainOf(b) = "ip-api.com" /\ promise[b].status = "queued"
    /\ \E c, d \in Ids :
           /\ c # d
           /\ DomainOf(c) = "nominatim.openstreetmap.org" /\ promise[c].fetches = 1
           /\ DomainOf(d) = "nominatim.openstreetmap.org" /\ promise[d].fetches = 1

\* The request at the head of the queue cannot be sent now: the quota of its
\* domain is used up or the breaker of its domain is open.
HeadBlocked ==
    /\ requestQueue # <<>>
    /\ LET d == extractDomain(Head(requestQueue).config.url)
       IN  ~checkRateLimit(rateLimiter, d, now).ok \/ Rejects(circuitBreaker, d, now)

\* The requests sent from the queue in this step.
Dispatched == {dispatched'[i] : i \in (Len(dispatched) + 1)..Len(dispatched')}

\* C20: no entry behind the head of the queue is sent before the head; when
\* the head cannot be sent (quota used up or breaker open) the drain cycle
\* stops with that entry still at the head and nothing else is sent, not even
\* an entry behind it for another domain that could be sent.
C20_HeadOfLine ==
    [][/\ \A i \in 2..Len(requestQueue) : requestQueue[i].id \notin Dispatched
       /\ HeadBlocked
              => /\ dispatched' = dispatched
                 /\ requestQueue' # <<>>
                 /\ Arrived = {} => requestQueue' = requestQueue]_vars

\* A drain cycle has just stopped at a head that cannot be sent, with an
\* entry for another domain behind it that could be.
C20_Witness ==
    /\ Len(requestQueue) >= 2
    /\ HeadBlocked
    /\ LET d == extractDomain(requestQueue[2].config.url)
       IN  /\ d # extractDomain(Head(requestQueue).config.url)
           /\ checkRateLimit(rateLimiter, d, now).ok
           /\ ~Rejects(circuitBreaker, d, now)
    /\ ~isProcessingQueue
    /\ now > 0
    /\ \E i \in 1..Len(timers) : timers[i] = now + DrainRetryDelay

-----------------------------------------------------------------------------
(* Claims about a rejection by the open breaker, under SpecFrame *)

\* The request() of this step was rejected because the breaker is open.
RejectedByBreaker(id) ==
    promise'[id].status = "rejected" /\ promise'[id].value = CircuitOpenError

\* The rejected request made no fetch, is not in the queue, and left the
\* queue and the limiters as they were.
NothingSentNorQueued(id) ==
    /\ promise'[id].fetches = 0
    /\ calls' = calls
    /\ \A i \in 1..Len(requestQueue') : requestQueue'[i].id # id
    /\ requestQueue' = requestQueue
    /\ rateLimiter' = rateLimiter

\* C18 as stated: when request() is rejected because the breaker of the
\* domain is open, no network attempt is made, the request is not enqueued,
\* and the queue, the cache and the limiter's count and window are unchanged.
C18_RejectionChangesNothing ==
    [][\A id \in Arrived :
         RejectedByBreaker(id)
             => NothingSentNorQueued(id) /\ requestCache' = requestCache]_vars

\* The keys the read of the cache by the request() of config removes.
Purged(config) ==
    IF /\ config.cacheKey # "" /\ ~config.skipCache
       /\ config.cacheKey \in DOMAIN requestCache
       /\ Expired(requestCache[config.cacheKey], now)
    THEN {config.cacheKey} ELSE {}

\* C18 amended: when request() is rejected because the breaker of the domain
\* is open, no network attempt is made, the request is not enqueued, and the
\* queue and the limiter's count and window are unchanged; the cache is
\* unchanged but for an expired entry under the request's own key, which the
\* read that precedes the breaker removes.
C18_RejectionChangesOnlyExpiredEntry ==
    [][\A id \in Arrived :
         RejectedByBreaker(id)
             => /\ NothingSentNorQueued(id)
                /\ requestCache' =
                       [k \in DOMAIN requestCache \ Purged(promise'[id].config) |->
                           requestCache[k]]]_vars

\* A request that had read an expired entry of its key was rejected by the
\* open breaker while the quota of the domain was used up.
C18_Witness ==
    \E id \in Ids :
        /\ promise[id].value = CircuitOpenError
        /\ promise[id].cacheRead = "expired"
        /\ Refuses(DomainOf(id))

-----------------------------------------------------------------------------
(* Claims about the drain cycle, under Spec *)

\* The queued requests whose send is on the wire.
QueuedInFlight ==
    {id \in Ids : promise[id].via = "queue" /\ promise[id].status = "fetching"}

\* This step calls processQueue: a request() that enqueues, or a timer that
\* fires.
CallsProcessQueue ==
    \/ \E id \in Arrived : promise'[id].via = "none" /\ promise'[id].status = "queued"
    \/ timers # <<>> /\ timers' = Tail(timers)

\* C21: at most one drain cycle is active at any time: a processQueue
\* invocation that finds the processing flag set returns without removing or
\* sending any queue entry, so two queued requests are never in flight at the
\* same time.
C21_OneDrainCycle ==
    /\ [](Cardinality(QueuedInFlight) <= 1)
    /\ [][(isProcessingQueue /\ CallsProcessQueue)
            => /\ dispatched' = dispatched
               /\ calls' = calls
               /\ isProcessingQueue'
               /\ drainPc' = drainPc
               /\ \A i \in 1..Len(requestQueue) :
                      \E j \in 1..Len(requestQueue') :
                          requestQueue'[j] = requestQueue[i]]_vars

\* A request was enqueued while the send of a queued request, which had left
\* the queue before, was on the wire.
C21_Witness ==
    \E b \in QueuedInFlight, c \in Ids :
        /\ promise[c].status = "queued"
        /\ promise[b].seq < promise[c].seq
        /\ b \notin promise[c].queuedWith
        /\ isProcessingQueue

\* C22: whenever the queue is non-empty and no drain cycle is running, a
\* further drain attempt is pending (a scheduled timer); the processing flag
\* is released at the end of every cycle, also when the send of a queued
\* request fails: the flag is set only while the cycle awaits the send of a
\* queued request or the delay that follows it.
C22_DrainAlwaysPending ==
    /\ []((requestQueue # <<>> /\ ~isProcessingQueue) => timers # <<>>)
    /\ [](isProcessingQueue <=> (QueuedInFlight # {} \/ drainPc = "delay"))
    /\ [][\A id \in QueuedInFlight :
            promise'[id].status \in {"resolved", "rejected"}
                => /\ drainPc' = "delay"
                   /\ delayDue' = now + InterRequestDelay]_vars

\* The send of a queued request failed, the cycle went on after its delay and
\* stopped at the next entry: the flag is released and a timer is pending.
C22_Witness ==
    /\ \E id \in Ids : promise[id].via = "queue" /\ promise[id].status = "rejected"
    /\ requestQueue # <<>>
    /\ ~isProcessingQueue
    /\ \E i \in 1..Len(timers) : timers[i] = now + DrainRetryDelay

-----------------------------------------------------------------------------
(* Claims about the size ceiling of the cache, under SpecCeiling *)

\* The requests whose response is written to the cache in this step.
Written ==
    {id \in Ids : /\ promise[id].status = "fetching"
                  /\ promise'[id].status = "resolved"
                  /\ promise[id].config.cacheKey # ""}

\* The cache as the write of the response of request id makes it.
WithEntryOf(id) ==
    Put(requestCache, promise[id].config.cacheKey,
        [data |-> promise'[id].value, timestamp |-> now,
         ttl |-> getCacheTTL(extractDomain(promise[id].config.url))])

\* The keys whose entry leaves the cache in this step.
Removed == (DOMAIN requestCache) \ DOMAIN requestCache'

\* The keys the request() of this step reads in the cache.
ReadKeys ==
    {promise'[id].config.cacheKey :
        id \in {a \in Arrived : /\ promise'[a].config.cacheKey # ""
                                /\ ~promise'[a].config.skipCache}}

-----------------------------------------------------------------------------
(* Claims about the promises of queued requests, under SpecSettle *)

InQueue(queue, id) == \E i \in 1..Len(queue) : queue[i].id = id

\* C24: every request placed in the queue has its caller's promise settled
\* exactly once (resolved with the payload or rejected with the error of its
\* own send) and only after it was removed from the queue for sending; an
\* entry never leaves the queue without being sent, and no entry is ever
\* duplicated in the queue.
C24_QueuedSettledOnceAfterSend ==
    /\ [](\A i, j \in 1..Len(requestQueue) :
              i # j => requestQueue[i].id # requestQueue[j].id)
    /\ [](\A i, j \in 1..Len(dispatched) : i # j => dispatched[i] # dispatched[j])
    /\ [](\A id \in Ids :
              /\ promise[id].status = "queued" <=> InQueue(requestQueue, id)
              /\ promise[id].via = "queue"
                     <=> \E i \in 1..Len(dispatched) : dispatched[i] = id
              /\ (promise[id].via = "queue" /\ promise[id].status = "resolved")
                     => promise[id].value = Payload(id, promise[id].fetches - 1)
              /\ (promise[id].via = "queue" /\ promise[id].status = "rejected")
                     => promise[id].value =
                            FetchError(promise[id].outcomes[Len(promise[id].outcomes)],
                                       id, promise[id].fetches - 1))
    /\ [][\A id \in Ids :
            /\ Settled(id) => promise'[id] = promise[id]
            /\ promise[id].status = "queued"
                   => \/ promise'[id] = promise[id] /\ InQueue(requestQueue', id)
                      \/ /\ promise'[id].status = "fetching"
                         /\ promise'[id].fetches = 1
                         /\ id \in Dispatched
                         /\ \E c \in calls' \ calls : c.id = id /\ c.at = now]_vars

\* Two requests waited in the queue together; both were sent from it and
\* have settled, one resolved and one rejected after a retry.
C24_Witness ==
    \E a, b \in Ids :
        /\ a \in promise[b].queuedWith
        /\ promise[a].via = "queue" /\ promise[b].via = "queue"
        /\ {promise[a].status, promise[b].status} = {"resolved", "rejected"}
        /\ \E c \in {a, b} : promise[c].status = "rejected" /\ promise[c].fetches = 2

-----------------------------------------------------------------------------
(* Claims about attempts and the open breaker, under Spec *)

\* The breaker of domain d is open and its cooldown has not elapsed at time t.
OpenAt(breakers, d, t) ==
    /\ d \in DOMAIN breakers
    /\ breakers[d].isOpen
    /\ t - breakers[d].lastFailure <= CIRCUIT_BREAKER_CONFIG.resetTimeout

\* C25: no network attempt is made to a domain while that domain's breaker
\* is open and its cooldown has not elapsed; this includes the remaining
\* retry attempts of a request that was admitted before the breaker opened.
\* (An attempt made in a step is made after the step's changes to the
\* breaker: after the failure the step records, after the close the step's
\* admission brings about.)
C25_NoAttemptWhileOpen ==
    [][\A c \in calls' \ calls : ~OpenAt(circuitBreaker', c.domain, now)]_vars

\* C26: a request() call is never sent directly to the network while a
\* request to the same domain that was enqueued earlier is still waiting in
\* the queue: queued requests to a domain are served before later arrivals to
\* that domain.
C26_NoOvertaking ==
    [][\A id \in Arrived :
         promise'[id].via = "direct"
             => \A i \in 1..Len(requestQueue) :
                    extractDomain(requestQueue[i].config.url)
                        # extractDomain(promise'[id].config.url)]_vars

-----------------------------------------------------------------------------
(* Claims about the slot of an entry that is put back, under SpecHead *)

\* A drain cycle of this step has put the head back unsent: it sends nothing
\* and sets the timer of the next attempt.
PutBack ==
    /\ dispatched' = dispatched
    /\ requestQueue' # <<>>
    /\ \/ timers' = Append(timers, now + DrainRetryDelay)
       \/ timers # <<>> /\ timers' = Append(Tail(timers), now + DrainRetryDelay)

LimiterOf(limiters, d) ==
    IF d \in DOMAIN limiters THEN limiters[d] ELSE [count |-> 0, resetTime |-> 0]

\* C27: the drain cycle consumes a rate-limit slot for the head entry only
\* when it then sends that entry: whenever the head entry is put back unsent
\* (quota exhausted or breaker open), the domain's limiter count and window
\* are the same as before the drain looked at it.
C27_PutBackKeepsSlot ==
    [][PutBack
          => LET d == extractDomain(Head(requestQueue').config.url)
             IN  LimiterOf(rateLimiter', d) = LimiterOf(rateLimiter, d)]_vars

-----------------------------------------------------------------------------
(* Claims about the stored state of the breaker, under Spec *)

\* The domains a request to which succeeds in this step.
Succeeded ==
    {extractDomain(promise[id].config.url) :
        id \in {a \in Ids : /\ promise[a].status = "fetching"
                            /\ promise'[a].status = "resolved"}}

\* C28: in every reachable state and for every domain with stored breaker
\* state, the open flag is set exactly when the stored consecutive-failure
\* count is at least the threshold (5); closing the breaker after the
\* cooldown resets the count to 0 and a success removes the domain's breaker
\* state altogether.
C28_OpenIffThreshold ==
    /\ [](\A d \in DOMAIN circuitBreaker :
              circuitBreaker[d].isOpen <=> circuitBreaker[d].failures >= 5)
    /\ [][\A d \in DOMAIN circuitBreaker :
            /\ (/\ circuitBreaker[d].isOpen
                /\ d \in DOMAIN circuitBreaker'
                /\ ~circuitBreaker'[d].isOpen)
                   => /\ circuitBreaker'[d].failures = 0
                      /\ now - circuitBreaker[d].lastFailure > 60000
            /\ d \in Succeeded => d \notin DOMAIN circuitBreaker']_vars

\* The breaker of a domain was closed after its cooldown, for a request that
\* is on the wire; an earlier request to the domain had succeeded.
C28_Witness ==
    \E d \in DOMAIN circuitBreaker :
        /\ ~circuitBreaker[d].isOpen
        /\ circuitBreaker[d].failures = 0
        /\ d \in DOMAIN trial
        /\ promise[trial[d]].status = "fetching"
        /\ \E id \in Ids : DomainOf(id) = d /\ promise[id].status = "resolved"

-----------------------------------------------------------------------------
(* Claims about the fromCache mark of a batch outcome, under SpecBatch *)

\* C29: in a batchRequests outcome, fromCache is true only if that request
\* was answered from the cache without a network call; an outcome whose
\* payload was fetched from the network during the batch has fromCache false.
C29_FromCacheMeansNoFetch ==
    \A b \in DOMAIN batch :
        \A i \in 1..Len(batch[b].results) :
            LET r == batch[b].results[i]
                p == promise[batch[b].ids[i]]
            IN  (r.done /\ r.success)
                    => /\ r.fromCache => (p.fromCache /\ p.fetches = 0)
                       /\ p.fetches > 0 => ~r.fromCache

-----------------------------------------------------------------------------
(* Claims about requests that skip the cache, under SpecCache *)

SkipsCache(id) == promise[id].config.skipCache

\* C30: a request with skipCache set never returns a cached payload (it
\* always goes through breaker and rate-limit admission), and when it
\* succeeds with a cacheKey its response is still written to the cache under
\* that key, replacing any existing entry and restarting its TTL.
C30_SkipCacheFetchesAndWrites ==
    /\ [](\A id \in Ids :
              SkipsCache(id)
                  => /\ ~promise[id].fromCache
                     /\ promise[id].status = "resolved"
                            => /\ promise[id].fetches >= 1
                               /\ promise[id].value \in
                                      {Payload(id, promise[id].fetches - 1), FalsyPayload})
    /\ [][/\ \A id \in Arrived :
                promise'[id].config.skipCache
                    => /\ promise'[id].status =
                              Admission(extractDomain(promise'[id].config.url))
                       /\ requestCache' = requestCache
          /\ \A id \in Ids :
                (/\ SkipsCache(id) /\ KeyOf(id) # ""
                 /\ promise[id].status = "fetching"
                 /\ promise'[id].status = "resolved")
                    => /\ KeyOf(id) \in DOMAIN requestCache'
                       /\ requestCache'[KeyOf(id)] =
                              [data |-> promise'[id].value, timestamp |-> now,
                               ttl |-> getCacheTTL(DomainOf(id))]]_vars

\* With an unexpired entry of an earlier request in the cache, a request that
\* skips the cache was made, fetched its own payload at a later time, and
\* its response has replaced the entry.
C30_Witness ==
    \E a, b \in Ids :
        /\ ~SkipsCache(a) /\ SkipsCache(b) /\ KeyOf(a) = KeyOf(b)
        /\ promise[a].seq < promise[b].seq
        /\ promise[a].status = "resolved" /\ promise[a].value = Payload(a, 0)
        /\ promise[b].status = "resolved" /\ promise[b].value = Payload(b, 0)
        /\ requestCache[KeyOf(b)].data = Payload(b, 0)
        /\ requestCache[KeyOf(b)].timestamp > 0

====
